---- MODULE Spec2Model ----
(***************************************************************************)
(* The nutrition retrieval and ranking pipeline of src/main.py:            *)
(* fetch_item_nutrition, _num, normalize_item, allowed, score,             *)
(* get_healthy_meals and the ranking line of main.                         *)
(*                                                                         *)
(* Python values are modelled as follows.                                  *)
(*   - a str is a sequence of one-character strings, so that lower(),      *)
(*     the substring test and float() are computed, not assumed;           *)
(*   - a JSON value (what r.json() returns) is a record with a kind k:     *)
(*     "null", "str", "num" or "dict"; a dict carries a function d from    *)
(*     its keys to JSON values, an absent key is a key outside DOMAIN d;   *)
(*   - a Python float-or-None is a record with a kind k: "None", "float"   *)
(*     (the rational n/d) or "nan";                                        *)
(*   - a call returns [exc, val]: exc = "none" and the value, or the name  *)
(*     of the exception it raises.                                         *)
(***************************************************************************)
EXTENDS Integers, Sequences, FiniteSets, TLC

\* ------------------------------------------------------------------------
\* Program constants (src/main.py lines 17, 18, 36, 37; the dietary
\* thresholds at their defaults).
MAX_CALORIES == 850
MIN_GRAMS_PROTEIN == 25
MAX_WORKERS == 10
TOP_N == 5

\* Bound of the model: the longest menu the pipeline specification draws.
MaxItems == 2

\* ------------------------------------------------------------------------
\* Strings.
S_empty == << >>
S_0     == <<"0">>
S_20    == <<"2", "0">>
S_40    == <<"4", "0">>
S_200   == <<"2", "0", "0">>
S_400   == <<"4", "0", "0">>
S_800   == <<"8", "0", "0">>
S_900   == <<"9", "0", "0">>
S_abc   == <<"a", "b", "c">>
S_nan   == <<"n", "a", "n">>
S_NaN   == <<"N", "a", "N">>
S_Rice  == <<"R", "i", "c", "e">>
S_Milk  == <<"M", "i", "l", "k">>

DigitVal == ("0" :> 0) @@ ("1" :> 1) @@ ("2" :> 2) @@ ("3" :> 3) @@ ("4" :> 4)
            @@ ("5" :> 5) @@ ("6" :> 6) @@ ("7" :> 7) @@ ("8" :> 8) @@ ("9" :> 9)

LowerOf == ("M" :> "m") @@ ("N" :> "n") @@ ("R" :> "r")

\* str.lower()
Lower(s) == [i \in 1..Len(s) |-> IF s[i] \in DOMAIN LowerOf THEN LowerOf[s[i]] ELSE s[i]]

\* x in s, for strings
Contains(s, x) ==
    \E i \in 0..(Len(s) - Len(x)) : \A j \in 1..Len(x) : s[i + j] = x[j]

\* ------------------------------------------------------------------------
\* JSON values.
JNull      == [k |-> "null", s |-> << >>, n |-> 0, d |-> << >>]
JStr(str)  == [k |-> "str",  s |-> str,   n |-> 0, d |-> << >>]
JNum(num)  == [k |-> "num",  s |-> << >>, n |-> num, d |-> << >>]
JDict(fn)  == [k |-> "dict", s |-> << >>, n |-> 0, d |-> fn]
JEmptyDict == JDict(<< >>)

\* Python floats and None.
\* A float is the rational n/d in lowest terms with d > 0. The numerals of
\* the input domain are small integers, and every score that is a number is
\* that of a record that passed allowed (calories 400 or 800), which is exact
\* in binary floating point, so the rational is the float.
PyNone     == [k |-> "None",  n |-> 0, d |-> 1]
PyNaN      == [k |-> "nan",   n |-> 0, d |-> 1]
PyFloat(x) == [k |-> "float", n |-> x, d |-> 1]

\* Outcome of a call (RetB, RaiseB: of a call that returns a bool).
Ret(v)    == [exc |-> "none", val |-> v]
Raise(e)  == [exc |-> e, val |-> PyNone]
RetB(b)   == [exc |-> "none", val |-> b]
RaiseB(e) == [exc |-> e, val |-> FALSE]

\* dict.get(key, default) on a JSON value: only a dict has .get
Get(j, key, default) ==
    IF j.k # "dict" THEN Raise("AttributeError")
    ELSE IF key \in DOMAIN j.d THEN Ret(j.d[key]) ELSE Ret(default)

\* the value of a decimal numeral
RECURSIVE Decimal(_)
Decimal(s) ==
    IF Len(s) = 0 THEN 0
    ELSE 10 * Decimal(SubSeq(s, 1, Len(s) - 1)) + DigitVal[s[Len(s)]]

\* float(value)
float(v) ==
    CASE v.k = "num" -> Ret(PyFloat(v.n))
      [] v.k = "str" ->
            IF Len(v.s) > 0 /\ \A i \in 1..Len(v.s) : v.s[i] \in DOMAIN DigitVal
            THEN Ret(PyFloat(Decimal(v.s)))
            ELSE IF Lower(v.s) = S_nan THEN Ret(PyNaN)
            ELSE Raise("ValueError")
      [] OTHER -> Raise("TypeError")

\* _num(nutrition, key, cast=float), main.py 82-87
_num(nutrition, key) ==
    LET entry == Get(nutrition, key, JEmptyDict)
        value == IF entry.exc = "none" THEN Get(entry.val, "value", JStr(S_empty))
                 ELSE entry
    IN  IF value.exc # "none" THEN value      \* AttributeError is not caught
        ELSE IF value.val = JStr(S_empty) THEN Ret(PyNone)
        ELSE LET c == float(value.val)
             IN  IF c.exc \in {"ValueError", "TypeError"} THEN Ret(PyNone) ELSE c

\* ------------------------------------------------------------------------
\* normalize_item, main.py 90-117

\* raw[key]
Subscript(j, key) ==
    IF j.k # "dict" THEN Raise("TypeError")
    ELSE IF key \in DOMAIN j.d THEN Ret(j.d[key]) ELSE Raise("KeyError")

\* raw["items"][id]
ItemOf(raw, id) ==
    LET its == Subscript(raw, "items")
    IN  IF its.exc # "none" THEN its ELSE Subscript(its.val, id)

\* item.get("ingredient_details", "").lower()
IngredientsOf(item) ==
    LET g == Get(item, "ingredient_details", JStr(S_empty))
    IN  IF g.exc # "none" THEN g
        ELSE IF g.val.k # "str" THEN Raise("AttributeError")
        ELSE Ret(JStr(Lower(g.val.s)))

\* nutrition.get("servingSize").get("unit"); None is the JSON null
ServingSizeUnitOf(nutrition) ==
    LET e == Get(nutrition, "servingSize", JNull)
    IN  IF e.exc # "none" THEN e ELSE Get(e.val, "unit", JNull)

DairyWords == { <<"m", "i", "l", "k">>, <<"c", "h", "e", "e", "s", "e">>,
                <<"b", "u", "t", "t", "e", "r">>, <<"c", "r", "e", "a", "m">>,
                <<"w", "h", "e", "y">>, <<"c", "a", "s", "e", "i", "n">> }

\* the exception of the first call that raises, in the order of the calls
FirstExc(calls) ==
    IF \A i \in 1..Len(calls) : calls[i].exc = "none" THEN "none"
    ELSE LET i == CHOOSE i \in 1..Len(calls) :
                     /\ calls[i].exc # "none"
                     /\ \A j \in 1..(i - 1) : calls[j].exc = "none"
         IN  calls[i].exc

normalize_item(raw, name, id) ==
    LET item == ItemOf(raw, id)
    IN  IF item.exc # "none" THEN item
        ELSE
        LET nutr == Get(item.val, "nutrition_details", JEmptyDict)
        IN  IF nutr.exc # "none" THEN nutr
            ELSE
            LET nutrition         == nutr.val
                ingredients       == IngredientsOf(item.val)
                calories          == _num(nutrition, "calories")
                protein           == _num(nutrition, "proteinContent")
                fat               == _num(nutrition, "fatContent")
                carbs             == _num(nutrition, "carbohydrateContent")
                serving_size      == _num(nutrition, "servingSize")
                serving_size_unit == ServingSizeUnitOf(nutrition)
                exc == FirstExc(<<ingredients, calories, protein, fat, carbs,
                                  serving_size, serving_size_unit>>)
            IN  IF exc # "none" THEN Raise(exc)
                ELSE Ret([id                |-> id,
                          name              |-> name,
                          calories          |-> calories.val,
                          protein_g         |-> protein.val,
                          fat_g             |-> fat.val,
                          carbs_g           |-> carbs.val,
                          serving_size      |-> serving_size.val,
                          serving_size_unit |-> serving_size_unit.val,
                          ingredients       |-> ingredients.val.s,
                          dairy_free        |-> ~ \E w \in DairyWords :
                                                    Contains(ingredients.val.s, w)])

\* ------------------------------------------------------------------------
\* Float arithmetic and comparison.
RECURSIVE GCD(_, _)
GCD(a, b) == IF b = 0 THEN a ELSE GCD(b, a % b)

Abs(a) == IF a < 0 THEN -a ELSE a

Rat(n, d) ==
    LET g == GCD(Abs(n), Abs(d))
        s == IF d < 0 THEN -1 ELSE 1
    IN  [k |-> "float", n |-> (s * n) \div g, d |-> (s * d) \div g]

\* a > b, a < b : None is not ordered (TypeError), every comparison with
\* nan is False
GT(a, b) ==
    IF a.k = "None" \/ b.k = "None" THEN RaiseB("TypeError")
    ELSE IF a.k = "nan" \/ b.k = "nan" THEN RetB(FALSE)
    ELSE RetB(a.n * b.d > b.n * a.d)

LT(a, b) == GT(b, a)

\* a * b
Mul(a, b) ==
    IF a.k = "None" \/ b.k = "None" THEN Raise("TypeError")
    ELSE IF a.k = "nan" \/ b.k = "nan" THEN Ret(PyNaN)
    ELSE Ret(Rat(a.n * b.n, a.d * b.d))

\* a / b
Div(a, b) ==
    IF a.k = "None" \/ b.k = "None" THEN Raise("TypeError")
    ELSE IF b.k = "float" /\ b.n = 0 THEN Raise("ZeroDivisionError")
    ELSE IF a.k = "nan" \/ b.k = "nan" THEN Ret(PyNaN)
    ELSE Ret(Rat(a.n * b.d, a.d * b.n))

\* ------------------------------------------------------------------------
\* allowed, main.py 120-125
allowed(item) ==
    LET over == GT(item.calories, PyFloat(MAX_CALORIES))
    IN  IF over.exc # "none" THEN over
        ELSE IF over.val THEN RetB(FALSE)
        ELSE LET under == LT(item.protein_g, PyFloat(MIN_GRAMS_PROTEIN))
             IN  IF under.exc # "none" THEN under
                 ELSE IF under.val THEN RetB(FALSE)
                 ELSE RetB(TRUE)

\* get_protein_score, main.py 132-134
get_protein_score(item) ==
    LET m == Mul(item.protein_g, PyFloat(10))
    IN  IF m.exc # "none" THEN m ELSE Div(m.val, item.calories)

\* get_volume_score, main.py 137-139
get_volume_score(item) ==
    LET m == Mul(item.serving_size, PyFloat(100))
    IN  IF m.exc # "none" THEN m ELSE Div(m.val, item.calories)

\* score, main.py 128-129
score(item) ==
    LET p == get_protein_score(item)
    IN  IF p.exc # "none" THEN p
        ELSE LET v == get_volume_score(item)
             IN  IF v.exc # "none" THEN v ELSE Mul(p.val, v.val)

\* ------------------------------------------------------------------------
\* sorted(meals, key=score, reverse=True)[:TOP_N], main.py 245

\* the exception of the first key that raises, "none" if none does
KeyExc(ms) == FirstExc([i \in 1..Len(ms) |-> score(ms[i])])

HasNaNKey(ms) == \E i \in 1..Len(ms) : score(ms[i]).val.k = "nan"

\* The stable descending sort: a record goes behind every record with a
\* larger key and behind the earlier records with an equal key (equal keys
\* keep their original order, also under reverse=True).
SortPos(ms, i) ==
    1 + Cardinality({j \in 1..Len(ms) : LT(score(ms[i]).val, score(ms[j]).val).val})
      + Cardinality({j \in 1..(i - 1) :
                        /\ ~ LT(score(ms[i]).val, score(ms[j]).val).val
                        /\ ~ LT(score(ms[j]).val, score(ms[i]).val).val})

StableSortDesc(ms) ==
    [p \in 1..Len(ms) |-> ms[CHOOSE i \in 1..Len(ms) : SortPos(ms, i) = p]]

\* The lists sorted() may return. With totally ordered keys it is the stable
\* descending sort. A nan key compares False with every key, the keys are
\* then not totally ordered, and the order sorted() leaves is whatever the
\* interpreter's merge sort makes of the comparisons: any permutation.
sorted(ms) ==
    IF HasNaNKey(ms)
    THEN {[i \in 1..Len(ms) |-> ms[p[i]]] : p \in Permutations(1..Len(ms))}
    ELSE {StableSortDesc(ms)}

\* s[:n]
Take(s, n) == SubSeq(s, 1, IF Len(s) < n THEN Len(s) ELSE n)

\* ------------------------------------------------------------------------
\* The nutrition endpoint. A field entry of nutrition_details has a shape:
\*   nokey    the key is absent           null   the entry is null, no dict
\*   novalue  a dict without "value"      empty  "value": ""
\*   abc      "value": "abc"              vnull  "value": null
\*   nan      "value": "NaN"              j400   "value": 400 (a JSON number)
\*   n0 n20 n40 n200 n400 n800 n900       "value": the numeral
\* Every dict entry carries "unit": "g".

ShapeValue == ("empty" :> JStr(S_empty)) @@ ("abc" :> JStr(S_abc)) @@ ("vnull" :> JNull)
              @@ ("nan" :> JStr(S_NaN)) @@ ("j400" :> JNum(400))
              @@ ("n0" :> JStr(S_0)) @@ ("n20" :> JStr(S_20)) @@ ("n40" :> JStr(S_40))
              @@ ("n200" :> JStr(S_200)) @@ ("n400" :> JStr(S_400))
              @@ ("n800" :> JStr(S_800)) @@ ("n900" :> JStr(S_900))

Entry(shape) ==
    CASE shape = "null"    -> JNull
      [] shape = "novalue" -> JDict("unit" :> JStr(<<"g">>))
      [] OTHER             -> JDict(("value" :> ShapeValue[shape]) @@ ("unit" :> JStr(<<"g">>)))

NutritionKeys == {"calories", "proteinContent", "fatContent", "carbohydrateContent",
                  "servingSize"}

\* the nutrition_details whose entry for key has the shape sh[key]
NutritionDetails(sh) ==
    JDict([key \in {q \in NutritionKeys : sh[q] # "nokey"} |-> Entry(sh[key])])

ItemJson(sh, ingredients) ==
    JDict(("nutrition_details" :> NutritionDetails(sh))
          @@ ("ingredient_details" :> JStr(ingredients)))

Shapes(cal, prot, fat, carbs, serving) ==
    ("calories" :> cal) @@ ("proteinContent" :> prot) @@ ("fatContent" :> fat)
    @@ ("carbohydrateContent" :> carbs) @@ ("servingSize" :> serving)

\* What the endpoint answers for one menu item; the pipeline specification
\* draws one of these per item.
Kinds == {"error", "noid", "nounitkey", "goodA", "goodB", "overcal", "nocal",
          "zerocal", "noserving", "nancal"}

KindItem(kind) ==
    CASE kind = "nounitkey" -> ItemJson(Shapes("n400", "n40", "n20", "n40", "nokey"), S_Rice)
      [] kind = "goodA"     -> ItemJson(Shapes("n400", "n40", "n20", "n40", "n400"), S_Rice)
      [] kind = "goodB"     -> ItemJson(Shapes("n800", "n40", "n20", "n40", "n200"), S_Milk)
      [] kind = "overcal"   -> ItemJson(Shapes("n900", "n40", "n20", "n40", "n400"), S_Rice)
      [] kind = "nocal"     -> ItemJson(Shapes("empty", "n40", "n20", "n40", "n400"), S_Rice)
      [] kind = "zerocal"   -> ItemJson(Shapes("n0", "n40", "n20", "n40", "n400"), S_Rice)
      [] kind = "noserving" -> ItemJson(Shapes("n400", "n40", "n20", "n40", "novalue"), S_Rice)
      [] kind = "nancal"    -> ItemJson(Shapes("nan", "n40", "n20", "n40", "n400"), S_Rice)

\* r.raise_for_status(); return r.json()
Answer(kind, item_id) ==
    CASE kind = "error" -> Raise("RequestException")
      [] kind = "noid"  -> Ret(JDict("items" :> JEmptyDict))
      [] OTHER          -> Ret(JDict("items" :> JDict(item_id :> KindItem(kind))))

\* extract_lunch_items, main.py 57-61: the i-th menu entry
ItemIds == <<"101", "102", "103", "104", "105", "106", "107">>
MenuItem(i) == [id |-> ItemIds[i], nonce |-> "nonce", name |-> "dish"]

\* ------------------------------------------------------------------------
\* State.
VARIABLES
    lunch_items,  \* the menu: a sequence of MenuItem
    net,          \* item id -> the kind of answer the endpoint gives for it
    pc,           \* where main is: "submit" (in the with block), "fanin" (the
                  \* as_completed loop), "rank" (get_healthy_meals returned),
                  \* "done", "raised" (get_healthy_meals raised), "crashed"
                  \* (the ranking line raised), "idle" (main is not running)
    futures,      \* per submitted task, in submit order: its state and outcome
    completed,    \* the tasks in the order their fetch completed
    yielded,      \* the futures as_completed has yielded so far
    meals,        \* the list get_healthy_meals builds
    ranked,       \* main's meals: the sorted, truncated list
    err,          \* the exception that ended main, "none" if none
    uRaw,         \* function-level runs: the response under test,
    uNum,         \*   the last call of _num on it,
    uRec,         \*   the outcome of normalize_item,
    uOk,          \*   the outcome of allowed,
    uScore        \*   the outcome of score

pipeVars == <<lunch_items, net, pc, futures, completed, yielded, meals, ranked, err>>
unitVars == <<uRaw, uNum, uRec, uOk, uScore>>
vars == <<lunch_items, net, pc, futures, completed, yielded, meals, ranked, err,
          uRaw, uNum, uRec, uOk, uScore>>

NotCalled == [called |-> FALSE, key |-> "", out |-> Ret(PyNone)]
Called(key, out) == [called |-> TRUE, key |-> key, out |-> out]

Tasks == 1..Len(lunch_items)

\* fetch_item_nutrition, main.py 70-79
fetch_item_nutrition(item_id, nonce) == Answer(net[item_id], item_id)

\* ------------------------------------------------------------------------
\* get_healthy_meals, main.py 213-238

\* executor.submit(...) for the next item of the comprehension (217-223)
Submit ==
    /\ pc = "submit"
    /\ Len(futures) < Len(lunch_items)
    /\ futures' = Append(futures, [state |-> "pending", outcome |-> Ret(JNull)])
    /\ UNCHANGED <<lunch_items, net, pc, completed, yielded, meals, ranked, err>>
    /\ UNCHANGED unitVars

\* a pool thread takes the oldest pending task off the work queue; at most
\* MAX_WORKERS threads exist (215)
WorkerRun(i) ==
    /\ i \in 1..Len(futures)
    /\ futures[i].state = "pending"
    /\ \A j \in 1..(i - 1) : futures[j].state # "pending"
    /\ Cardinality({j \in 1..Len(futures) : futures[j].state = "running"}) < MAX_WORKERS
    /\ futures' = [futures EXCEPT ![i].state = "running"]
    /\ UNCHANGED <<lunch_items, net, pc, completed, yielded, meals, ranked, err>>
    /\ UNCHANGED unitVars

\* the task's fetch_item_nutrition returns or raises; the future keeps it
WorkerDone(i) ==
    /\ i \in 1..Len(futures)
    /\ futures[i].state = "running"
    /\ futures' = [futures EXCEPT
                     ![i] = [state   |-> "finished",
                             outcome |-> fetch_item_nutrition(lunch_items[i].id,
                                                              lunch_items[i].nonce)]]
    /\ completed' = Append(completed, i)
    /\ UNCHANGED <<lunch_items, net, pc, yielded, meals, ranked, err>>
    /\ UNCHANGED unitVars

\* the with block ends after the comprehension (the loop of line 226 is
\* outside it): shutdown(wait=True) returns once every task has finished
ExecutorExit ==
    /\ pc = "submit"
    /\ Len(futures) = Len(lunch_items)
    /\ \A i \in 1..Len(futures) : futures[i].state = "finished"
    /\ pc' = "fanin"
    /\ UNCHANGED <<lunch_items, net, futures, completed, yielded, meals, ranked, err>>
    /\ UNCHANGED unitVars

\* as_completed that forgets what it has yielded
as_completed_again(fs, done) == {i \in 1..Len(fs) : fs[i].state = "finished"}

\* the futures as_completed may yield next. It is called when every future
\* has finished: it yields the finished ones it has not yielded yet, in the
\* iteration order of a set of Future objects, which is any order.
as_completed(fs, done) == {i \in 1..Len(fs) : fs[i].state = "finished" /\ i \notin done}

\* the try block, 229-233
TryBody(ms, item, future) ==
    IF future.outcome.exc # "none" THEN [exc |-> future.outcome.exc, meals |-> ms]
    ELSE LET normalized == normalize_item(future.outcome.val, item.name, item.id)
         IN  IF normalized.exc # "none" THEN [exc |-> normalized.exc, meals |-> ms]
             ELSE LET ok == allowed(normalized.val)
                  IN  IF ok.exc # "none" THEN [exc |-> ok.exc, meals |-> ms]
                      ELSE IF ok.val
                           THEN [exc |-> "none", meals |-> Append(ms, normalized.val)]
                           ELSE [exc |-> "none", meals |-> ms]

\* the loop body without its except clause
LoopBodyUncaught(ms, item, future) == TryBody(ms, item, future)

\* one pass of the loop body, 227-236: except Exception: continue
LoopBody(ms, item, future) ==
    LET t == TryBody(ms, item, future)
    IN  IF t.exc # "none" THEN [exc |-> "none", meals |-> ms] ELSE t

\* one iteration of the loop of line 226; an exception that leaves the loop
\* body leaves get_healthy_meals
FanIn(i) ==
    /\ pc = "fanin"
    /\ i \in as_completed(futures, yielded)
    /\ \E r \in {LoopBody(meals, lunch_items[i], futures[i])} :
          /\ meals' = r.meals
          /\ pc' = IF r.exc = "none" THEN pc ELSE "raised"
          /\ err' = IF r.exc = "none" THEN err ELSE r.exc
    /\ yielded' = yielded \cup {i}
    /\ UNCHANGED <<lunch_items, net, futures, completed, ranked>>
    /\ UNCHANGED unitVars

\* as_completed is exhausted: return meals (238)
Return ==
    /\ pc = "fanin"
    /\ as_completed(futures, yielded) = {}
    /\ pc' = "rank"
    /\ UNCHANGED <<lunch_items, net, futures, completed, yielded, meals, ranked, err>>
    /\ UNCHANGED unitVars

\* main, 245: meals = sorted(get_healthy_meals(lunch_items), key=score,
\* reverse=True)[:TOP_N]; an exception of score ends main
Rank ==
    /\ pc = "rank"
    /\ IF KeyExc(meals) # "none"
       THEN /\ pc' = "crashed"
            /\ err' = KeyExc(meals)
            /\ ranked' = ranked
       ELSE /\ \E s \in sorted(meals) : ranked' = Take(s, TOP_N)
            /\ pc' = "done"
            /\ err' = err
    /\ UNCHANGED <<lunch_items, net, futures, completed, yielded, meals>>
    /\ UNCHANGED unitVars

\* ------------------------------------------------------------------------
\* Function-level runs: _num, normalize_item, allowed and score applied to
\* one response.
UnitId == ItemIds[1]

\* item.get("nutrition_details", {}) of the response under test
UnitNutrition ==
    LET item == ItemOf(uRaw, UnitId)
    IN  IF item.exc # "none" THEN item
        ELSE Get(item.val, "nutrition_details", JEmptyDict)

CallNum(key) ==
    /\ pc = "idle"
    /\ UnitNutrition.exc = "none"
    /\ uNum' = Called(key, _num(UnitNutrition.val, key))
    /\ UNCHANGED <<uRaw, uRec, uOk, uScore>>
    /\ UNCHANGED pipeVars

CallNormalize ==
    /\ pc = "idle"
    /\ ~ uRec.called
    /\ uRec' = Called("", normalize_item(uRaw, "dish", UnitId))
    /\ UNCHANGED <<uRaw, uNum, uOk, uScore>>
    /\ UNCHANGED pipeVars

CallAllowed ==
    /\ pc = "idle"
    /\ uRec.called /\ uRec.out.exc = "none"
    /\ ~ uOk.called
    /\ uOk' = Called("", allowed(uRec.out.val))
    /\ UNCHANGED <<uRaw, uNum, uRec, uScore>>
    /\ UNCHANGED pipeVars

CallScore ==
    /\ pc = "idle"
    /\ uOk.called /\ uOk.out = RetB(TRUE)
    /\ ~ uScore.called
    /\ uScore' = Called("", score(uRec.out.val))
    /\ UNCHANGED <<uRaw, uNum, uRec, uOk>>
    /\ UNCHANGED pipeVars

\* ------------------------------------------------------------------------
\* Specifications.
UnitIdle ==
    /\ uRaw = JNull
    /\ uNum = NotCalled /\ uRec = NotCalled /\ uOk = NotCalled /\ uScore = NotCalled

\* main after extract_lunch_items returned a menu (never an empty one, 63-64)
Init ==
    /\ \E n \in 1..MaxItems :
          /\ lunch_items = [i \in 1..n |-> MenuItem(i)]
          /\ net \in [{ItemIds[i] : i \in 1..n} -> Kinds]
    /\ pc = "submit"
    /\ futures = << >>
    /\ completed = << >>
    /\ yielded = {}
    /\ meals = << >>
    /\ ranked = << >>
    /\ err = "none"
    /\ UnitIdle

Next ==
    \/ Submit
    \/ \E i \in Tasks : WorkerRun(i)
    \/ \E i \in Tasks : WorkerDone(i)
    \/ ExecutorExit
    \/ \E i \in Tasks : FanIn(i)
    \/ Return
    \/ Rank

Spec == Init /\ [][Next]_vars

\* A menu of TOP_N + 1 dishes that all pass the filter, at the point where
\* the executor has shut down (every fetch has completed, in submit order).
InitTopN ==
    /\ lunch_items = [i \in 1..(TOP_N + 1) |-> MenuItem(i)]
    /\ \E a, b \in {"goodA", "goodB"} :
          net = [id \in {ItemIds[i] : i \in 1..(TOP_N + 1)} |->
                   IF id = ItemIds[1] THEN a ELSE IF id = ItemIds[2] THEN b ELSE "goodA"]
    /\ pc = "fanin"
    /\ futures = [i \in 1..(TOP_N + 1) |->
                    [state   |-> "finished",
                     outcome |-> fetch_item_nutrition(lunch_items[i].id,
                                                      lunch_items[i].nonce)]]
    /\ completed = [i \in 1..(TOP_N + 1) |-> i]
    /\ yielded = {}
    /\ meals = << >>
    /\ ranked = << >>
    /\ err = "none"
    /\ UnitIdle

NextTopN ==
    \/ \E i \in Tasks : FanIn(i)
    \/ Return
    \/ Rank

SpecTopN == InitTopN /\ [][NextTopN]_vars

\* The responses the function-level runs draw from.
UnitCalories == {"nokey", "null", "novalue", "empty", "abc", "vnull", "nan", "j400",
                 "n0", "n400", "n900"}
UnitProtein  == {"nokey", "null", "abc", "nan", "n20", "n40"}
UnitFat      == {"n20", "abc"}
UnitCarbs    == {"n40", "nokey"}
UnitServing  == {"nokey", "null", "novalue", "abc", "n0", "n400"}

UnitRaws ==
    { JDict("items" :> JDict(UnitId :> ItemJson(Shapes(c, p, f, b, s), g))) :
        c \in UnitCalories, p \in UnitProtein, f \in UnitFat, b \in UnitCarbs,
        s \in UnitServing, g \in {S_Rice, S_Milk} }
    \cup { JDict("items" :> JEmptyDict),
           JDict("items" :> JDict(UnitId :> JEmptyDict)),
           JDict("items" :> JDict(UnitId :> JDict("nutrition_details" :> JNull))) }

InitUnit ==
    /\ lunch_items = << >>
    /\ net = << >>
    /\ pc = "idle"
    /\ futures = << >>
    /\ completed = << >>
    /\ yielded = {}
    /\ meals = << >>
    /\ ranked = << >>
    /\ err = "none"
    /\ uRaw \in UnitRaws
    /\ uNum = NotCalled /\ uRec = NotCalled /\ uOk = NotCalled /\ uScore = NotCalled

NextUnit ==
    \/ \E key \in NutritionKeys : CallNum(key)
    \/ CallNormalize
    \/ CallAllowed
    \/ CallScore

SpecUnit == InitUnit /\ [][NextUnit]_vars
\* ------------------------------------------------------------------------
\* Properties.

AfterReturn == pc \in {"rank", "done", "crashed"}

\* what the endpoint answers for task i, and what normalize_item makes of it
Fetched(i)    == fetch_item_nutrition(lunch_items[i].id, lunch_items[i].nonce)
Normalized(i) == normalize_item(Fetched(i).val, lunch_items[i].name, lunch_items[i].id)

\* task i fails: its fetch raises or its normalization raises
Fails(i) == Fetched(i).exc # "none" \/ Normalized(i).exc # "none"

\* task i, taken by itself, yields a record: it fetches, normalizes and
\* allowed returns True
Collected(i) ==
    /\ Fetched(i).exc = "none"
    /\ Normalized(i).exc = "none"
    /\ allowed(Normalized(i).val) = RetB(TRUE)

\* how often task i's record is in a list of records
Count(ms, i) == Cardinality({k \in 1..Len(ms) : ms[k].id = lunch_items[i].id})

TaskOf(m) == CHOOSE i \in Tasks : lunch_items[i].id = m.id

\* the position of task i in the completion order
CompletedAt(i) == CHOOSE k \in 1..Len(completed) : completed[k] = i

Min(a, b) == IF a < b THEN a ELSE b

\* a >= b and a = b on scores: False when either is nan
GE(a, b) == a.k = "float" /\ b.k = "float" /\ a.n * b.d >= b.n * a.d
EQ(a, b) == a.k = "float" /\ b.k = "float" /\ a.n * b.d = b.n * a.d

\* C1: in get_healthy_meals a task whose fetch or normalization fails
\* contributes no record, no exception leaves the function, every other
\* task's record is in the result exactly when that task by itself yields
\* one, and when every task fails the result is the empty list.
C1_FailuresAreDropped ==
    /\ pc # "raised"
    /\ AfterReturn =>
          /\ \A i \in Tasks : Fails(i) => Count(meals, i) = 0
          /\ \A i \in Tasks : ~ Fails(i) => (Count(meals, i) > 0 <=> Collected(i))
          /\ (\A i \in Tasks : Fails(i)) => meals = << >>

\* C1 witness: the function returned for a menu with a failed fetch, a
\* failed normalization and a sibling whose record was collected.
C1_Witness ==
    /\ AfterReturn
    /\ \E i, j \in Tasks :
          /\ Fails(i)
          /\ ~ Fails(j) /\ Collected(j) /\ Count(meals, j) = 1
    /\ \E i \in Tasks : Fetched(i).exc = "none" /\ Normalized(i).exc # "none"

\* The all-fail case of C1: every task of a longest menu failed and the
\* function returned the empty list.
C1_AllFailReached ==
    AfterReturn /\ Len(lunch_items) = MaxItems /\ (\A i \in Tasks : Fails(i)) /\ meals = << >>

\* C2: every record of main's ranked output has calories present and
\* <= MAX_CALORIES and protein_g present and >= MIN_GRAMS_PROTEIN.
C2_OutputWithinThresholds ==
    pc = "done" =>
        \A k \in 1..Len(ranked) :
            /\ ranked[k].calories.k = "float"
            /\ ranked[k].calories.n <= MAX_CALORIES * ranked[k].calories.d
            /\ ranked[k].protein_g.k = "float"
            /\ ranked[k].protein_g.n >= MIN_GRAMS_PROTEIN * ranked[k].protein_g.d

\* C3: when main's ranking line has run, the ranked output has length
\* min(TOP_N, number of surviving records) and is in non-increasing order of
\* score.
C3_RankedLengthAndOrder ==
    pc \in {"done", "crashed"} =>
        /\ pc = "done"
        /\ Len(ranked) = Min(TOP_N, Len(meals))
        /\ \A a, b \in 1..Len(ranked) :
              a < b => GE(score(ranked[a]).val, score(ranked[b]).val)

\* C4: allowed returns False, and does not raise, for every normalized
\* record whose calories or protein_g is None.
C4_AllowedIsTotal ==
    uOk.called =>
        /\ uOk.out.exc = "none"
        /\ (uRec.out.val.calories.k = "None" \/ uRec.out.val.protein_g.k = "None")
              => uOk.out = RetB(FALSE)

\* C5: the ranking line of main never ends in a division by zero.
C5_NoDivisionFault == err # "ZeroDivisionError"

\* C6: two records of the ranked output with equal score are in the order
\* in which their fetch tasks completed.
C6_TiesInCompletionOrder ==
    pc = "done" =>
        \A a, b \in 1..Len(ranked) :
            (a < b /\ EQ(score(ranked[a]).val, score(ranked[b]).val))
                => CompletedAt(TaskOf(ranked[a])) < CompletedAt(TaskOf(ranked[b]))

\* the run in which as_completed yields the futures in submit order
RECURSIVE MealsInSubmitOrder(_)
MealsInSubmitOrder(i) ==
    IF i = 0 THEN << >>
    ELSE LoopBody(MealsInSubmitOrder(i - 1), lunch_items[i], futures[i]).meals

ReferenceRanked == Take(StableSortDesc(MealsInSubmitOrder(Len(lunch_items))), TOP_N)

\* C7: every run on the same menu and the same responses gives the output
\* of every other, up to the order of records with equal score: the same
\* records and the same sequence of scores as the run that takes the
\* futures in submit order.
C7_SameOutputEveryRun ==
    pc = "done" =>
        /\ {ranked[k].id : k \in 1..Len(ranked)}
              = {ReferenceRanked[k].id : k \in 1..Len(ReferenceRanked)}
        /\ Len(ranked) = Len(ReferenceRanked)
        /\ \A k \in 1..Len(ranked) :
              EQ(score(ranked[k]).val, score(ReferenceRanked[k]).val)

NumEntry == Get(UnitNutrition.val, uNum.key, JEmptyDict)
NumValue == Get(NumEntry.val, "value", JStr(S_empty))

\* C9: _num never raises; it yields None when the key is absent, the value
\* is absent or empty, or the value does not parse, and the float otherwise.
C9_NumNeverRaises ==
    uNum.called =>
        /\ uNum.out.exc = "none"
        /\ uNum.out.val.k = "None" <=>
              \/ NumValue.val = JStr(S_empty)
              \/ float(NumValue.val).exc # "none"

\* C10: every record get_healthy_meals returns has serving_size present.
C10_ServingSizePresent ==
    AfterReturn => \A k \in 1..Len(meals) : meals[k].serving_size.k # "None"
====
